---- MODULE Spec2Model ----
(***************************************************************************)
(* A model of the isometric region renderer (render.go): the spatial       *)
(* ordering, the isometric projection and chunk bounds, the chunk decoder's *)
(* failure paths, and the producer/consumer pipeline of main.               *)
(***************************************************************************)
EXTENDS Integers, Sequences, FiniteSets, TLC

(***************************************************************************)
(* Bounds of the model.                                                     *)
(***************************************************************************)
\* the most region files one run globs
MaxRegions == 2
\* the longest list handed to sort.Sort in the sorting specification
MaxLen == 4
\* chunk coordinates of the geometry specification range over -CoordMax..CoordMax
CoordMax == 1

(***************************************************************************)
(* Program constants.                                                       *)
(***************************************************************************)
\* a section is 16 x 16 x 16 blocks (the loops of Level.Draw, Section.Block)
SectionDim == 16
\* width of Level.X, Level.Z and of the arithmetic of Level.Bounds
MaxInt32 == 2147483647
MinInt32 == -MaxInt32 - 1

VARIABLES
    mpc,        \* main: "init" before sort.Sort(regions), "run" after
    files,      \* the globbed region files, in glob order
    regions,    \* main's PositionList of Region values
    ppc,        \* producer goroutine: "loop", "scan", "send", "done"
    pi,         \* producer: index (1-based) of the region of the current iteration
    pl,         \* producer: index (1-based) of the next header location
    locations,  \* producer: header.Locations of the open region file
    chunks,     \* producer: the PositionList being accumulated
    open,       \* region indices whose file is open
    closed,     \* the work channel has been closed
    cpc,        \* consumer (main's range loop): "recv", "draw", "done"
    cjob,       \* consumer: the Job received last
    ci,         \* consumer: index (1-based) of the next chunk of cjob to draw
    paintLog,   \* every chunk.Draw(img): who ran it, for which chunk of which job,
                \* and its DrawBlock calls on the target image, in order
    drawLog,    \* history: every chunk.Draw call <<job Index, chunk index>>
    aborted,    \* "none", or why the process died
    reads,      \* history: every Level.Read call <<region index, location index, Length>>
    appends,    \* history: every chunk appended <<region index, location index, TerrainPopulated, whole>>
    sent,       \* history: every Job sent on work
    received,   \* history: Index of every Job the consumer received
    started,    \* history: number of region files whose decode began
    finished,   \* history: number of jobs whose render loop ended
    srt,        \* sorting specification: [pc, in, out]
    geo         \* geometry specification: [pc, chunk, sec, x, y, z, proj, rect]

pipeVars == <<mpc, files, regions, ppc, pi, pl, locations, chunks, open, closed,
              cpc, cjob, ci, paintLog, drawLog, aborted, reads, appends, sent, received,
              started, finished>>
vars == <<mpc, files, regions, ppc, pi, pl, locations, chunks, open, closed,
          cpc, cjob, ci, paintLog, drawLog, aborted, reads, appends, sent, received,
          started, finished, srt, geo>>

(***************************************************************************)
(* Spatial ordering.                                                        *)
(***************************************************************************)
\* Region.GetPos / Level.GetPos
GetPos(e) == <<e.X, e.Z>>

\* PositionList.Less with the X tie-break ascending
LessXAscending(list, i, j) ==
    LET xi == GetPos(list[i])[1]
        zi == GetPos(list[i])[2]
        xj == GetPos(list[j])[1]
        zj == GetPos(list[j])[2]
    IN  IF zi = zj THEN xi < xj ELSE zi < zj

\* PositionList.Less with Z descending
LessZDescending(list, i, j) ==
    LET xi == GetPos(list[i])[1]
        zi == GetPos(list[i])[2]
        xj == GetPos(list[j])[1]
        zj == GetPos(list[j])[2]
    IN  IF zi = zj THEN xj < xi ELSE zj < zi

\* PositionList.Less
Less(list, i, j) ==
    LET xi == GetPos(list[i])[1]
        zi == GetPos(list[i])[2]
        xj == GetPos(list[j])[1]
        zj == GetPos(list[j])[2]
    IN  IF zi = zj THEN xj < xi ELSE zi < zj

\* the permutations of 1..n
Perms(n) == {p \in [1..n -> 1..n] : \A a, b \in 1..n : p[a] = p[b] => a = b}

\* sort.Sort(list): not stable, so every arrangement of the list that Less
\* accepts as sorted is a possible result
SortResults(list) ==
    {out \in {[k \in 1..Len(list) |-> list[p[k]]] : p \in Perms(Len(list))} :
        \A i, j \in 1..Len(list) : i < j => ~Less(out, j, i)}

(***************************************************************************)
(* Integer arithmetic.  Go's int is 64 bits wide on the builds this runs   *)
(* on; Level.X and Level.Z are int32 and Level.Bounds computes in int32,   *)
(* which wraps around silently.                                             *)
(***************************************************************************)
\* v << k on an int
Shl(v, k) == v * (2 ^ k)

\* v << k on an int32, 1 <= k <= 30: the low 32 bits, read as signed
Shl32(v, k) ==
    LET h == 2 ^ (31 - k)
        r == v % h
        q == (v \div h) % 2
    IN  (r - q * h) * (2 ^ k)

\* a + b on int32
Add32(a, b) ==
    IF a >= 0 /\ b >= 0
    THEN IF a > MaxInt32 - b THEN ((a + MinInt32) + b) + MinInt32 ELSE a + b
    ELSE IF a < 0 /\ b < 0
         THEN IF a < MinInt32 - b THEN ((a - MinInt32) + b) - MinInt32 ELSE a + b
         ELSE a + b

\* -a on int32
Neg32(a) == IF a = MinInt32 THEN MinInt32 ELSE 0 - a

\* a - b on int32
Sub32(a, b) == Add32(a, Neg32(b))

(***************************************************************************)
(* Isometric projection, sprite tile and chunk bounds.                      *)
(***************************************************************************)
\* image.Rect: a rectangle with its corners put in order
Rect(x0, y0, x1, y1) ==
    [Min |-> <<IF x0 > x1 THEN x1 ELSE x0, IF y0 > y1 THEN y1 ELSE y0>>,
     Max |-> <<IF x0 > x1 THEN x0 ELSE x1, IF y0 > y1 THEN y0 ELSE y1>>]

\* image.Rectangle.In: every point of r lies in s
RectIn(r, s) ==
    /\ s.Min[1] <= r.Min[1] /\ r.Max[1] <= s.Max[1]
    /\ s.Min[2] <= r.Min[2] /\ r.Max[2] <= s.Max[2]

\* ProjectIsometric with z subtracted in yI
ProjectIsometricZNeg(x, y, z) ==
    <<Shl(x, 1) + Shl(z, 1), ((0 - x) - Shl(y, 1)) - z>>

\* ProjectIsometric: xI = x << 1 + z << 1, yI = -x - y << 1 + z
\* (<< binds tighter than + and -, unary minus tighter still)
ProjectIsometric(x, y, z) ==
    <<Shl(x, 1) + Shl(z, 1), ((0 - x) - Shl(y, 1)) + z>>

\* the rectangle DrawBlock paints in: image.Rect(x - 2, y, x + 2, y + 3)
Tile(x, y) == Rect(x - 2, y, x + 2, y + 3)

\* the voxel coordinates Level.Draw hands to ProjectIsometric
WorldVoxel(l, section, x, y, z) ==
    <<Shl(l.X, 4) + x, Shl(section.Y, 4) + y, Shl(l.Z, 4) + z>>

\* the loop of Level.Bounds over l.Sections, from the running maximum y
RECURSIVE MaxSectionY(_, _)
MaxSectionY(sections, y) ==
    IF sections = <<>> THEN y
    ELSE MaxSectionY(Tail(sections),
                     IF y < Shl32(Head(sections).Y, 4)
                     THEN Shl32(Head(sections).Y, 4) ELSE y)

\* Level.Bounds
Bounds(l) ==
    LET y  == Add32(MaxSectionY(l.Sections, 0), 16)
        x0 == Add32(Shl32(l.X, 5), Shl32(l.Z, 5))
        y0 == Add32(Neg32(Shl32(l.X, 4)), Shl32(Add32(l.Z, 1), 4))
        x1 == Add32(Shl32(Add32(l.X, 1), 5), Shl32(Add32(l.Z, 1), 5))
        y1 == Add32(Sub32(Shl32(Neg32(Add32(l.X, 1)), 4), Shl32(y, 1)), Shl32(l.Z, 4))
    IN  Rect(x0 - 2, y0 + 2, x1 - 2, y1)

(***************************************************************************)
(* Sections and block colours.                                              *)
(***************************************************************************)
\* the index of Section.Block: (y * 16 + z) * 16 + x
BlockIndex(x, y, z) == (y * SectionDim + z) * SectionDim + x

\* Section.Block; Blocks records the non-zero codes of the 4096, the rest are 0
Block(section, x, y, z) ==
    IF BlockIndex(x, y, z) \in DOMAIN section.Blocks
    THEN section.Blocks[BlockIndex(x, y, z)] ELSE 0

\* the codes the block colour table has an entry for (0, air, has none)
blockColors == {1, 2}

\* a section with the given voxels set: each <<x, y, z, code>>
MkSection(Y, voxels) ==
    [Y |-> Y,
     Blocks |-> [i \in {BlockIndex(v[1], v[2], v[3]) : v \in voxels} |->
                   (CHOOSE v \in voxels : BlockIndex(v[1], v[2], v[3]) = i)[4]]]

(***************************************************************************)
(* Region files.  A file is its path, the coordinates its name parses to,   *)
(* whether os.Open succeeds, the packed location words of its header and,   *)
(* by sector offset, its records.  A record is what Level.Read meets in it: *)
(* whether the zlib stream opens, whether the tag tree parses to its end,    *)
(* and the fields nbt.Read stores (all of them, or those before the point    *)
(* where it gives up).                                                       *)
(***************************************************************************)
\* the zero value of Level (var chunk Level)
ZeroLevel == [X |-> 0, Z |-> 0, TerrainPopulated |-> 0, Sections |-> <<>>]

MkLevel(X, Z, populated, sections) ==
    [X |-> X, Z |-> Z, TerrainPopulated |-> populated, Sections |-> sections]

\* a packed header word: top 3 bytes sector offset, low byte sector count
Word(offset, length) == offset * 256 + length

Whole(level) == [zlibOK |-> TRUE, treeOK |-> TRUE, level |-> level]
Truncated(level) == [zlibOK |-> TRUE, treeOK |-> FALSE, level |-> level]
NoZlib == [zlibOK |-> FALSE, treeOK |-> FALSE, level |-> ZeroLevel]

ChunkA ==
    MkLevel(0, 0, 1,
        <<MkSection(0, {<<5, 5, 5, 1>>, <<4, 6, 6, 1>>, <<5, 15, 5, 2>>, <<15, 1, 1, 1>>,
                        <<5, 5, 15, 1>>, <<0, 0, 15, 2>>, <<9, 9, 9, 3>>, <<7, 5, 5, 1>>}),
          MkSection(1, {<<4, 0, 6, 1>>})>>)
ChunkB == MkLevel(1, 0, 1, <<MkSection(0, {<<0, 0, 0, 1>>})>>)
ChunkC == MkLevel(0, 1, 1, <<MkSection(0, {<<4, 6, 0, 2>>})>>)
ChunkD == MkLevel(-1, 1, 1, <<MkSection(0, {<<15, 1, 0, 1>>})>>)
ChunkE == MkLevel(0, 32, 1, <<MkSection(0, {<<1, 1, 1, 1>>})>>)
ChunkF == MkLevel(1, 32, 1, <<MkSection(2, {<<0, 0, 0, 1>>})>>)
ChunkSkipped == MkLevel(2, 0, 1, <<MkSection(0, {<<3, 3, 3, 1>>})>>)
ChunkUnpopulated == MkLevel(-1, 0, 0, <<MkSection(0, {<<2, 2, 2, 1>>})>>)
ChunkHalfPopulated == MkLevel(32, 0, 2, <<MkSection(0, {<<2, 2, 2, 1>>})>>)
ChunkOnlyUpper == MkLevel(0, 0, 1, <<MkSection(0, {<<4, 6, 6, 1>>})>>)
ChunkOnlyLower == MkLevel(0, 0, 1, <<MkSection(0, {<<5, 5, 5, 1>>})>>)

FileA ==
    [Path |-> "r.0.0.mca", X |-> 0, Z |-> 0, readable |-> TRUE,
     Header |-> <<Word(2, 1), Word(5, 0), Word(3, 1), Word(4, 1)>>,
     Records |-> (2 :> Whole(ChunkC)) @@ (3 :> Whole(ChunkA)) @@ (4 :> Whole(ChunkB))
                 @@ (5 :> Whole(ChunkSkipped))]
FileB ==
    [Path |-> "r.-1.0.mca", X |-> -1, Z |-> 0, readable |-> TRUE,
     Header |-> <<Word(2, 1), Word(3, 2), Word(0, 0)>>,
     Records |-> (2 :> Whole(ChunkUnpopulated)) @@ (3 :> Whole(ChunkD))]
FileC ==
    [Path |-> "r.0.1.mca", X |-> 0, Z |-> 1, readable |-> TRUE,
     Header |-> <<Word(2, 1), Word(3, 1), Word(4, 1)>>,
     Records |-> (2 :> Whole(ChunkE)) @@ (3 :> NoZlib) @@ (4 :> Whole(ChunkF))]
FileD ==
    [Path |-> "r.1.0.mca", X |-> 1, Z |-> 0, readable |-> TRUE,
     Header |-> <<Word(4, 1), Word(3, 1), Word(2, 1)>>,
     Records |-> (2 :> Truncated(MkLevel(0, 0, 1, <<>>))) @@ (3 :> Truncated(ZeroLevel))
                 @@ (4 :> Whole(ChunkHalfPopulated))]
FileE ==
    [Path |-> "r.0.-1.mca", X |-> 0, Z |-> -1, readable |-> TRUE,
     Header |-> <<Word(0, 0), Word(0, 0)>>,
     Records |-> (2 :> Whole(ChunkSkipped))]
FileF ==
    [Path |-> "r.00.0.mca", X |-> 0, Z |-> 0, readable |-> TRUE,
     Header |-> <<Word(2, 1), Word(3, 1)>>,
     Records |-> (2 :> Whole(ChunkOnlyUpper)) @@ (3 :> Whole(ChunkOnlyLower))]
FileG ==
    [Path |-> "r.2.0.mca", X |-> 2, Z |-> 0, readable |-> FALSE,
     Header |-> <<>>,
     Records |-> (2 :> Whole(ChunkSkipped))]

FilePool == {FileA, FileB, FileC, FileD, FileE, FileF, FileG}

\* what filepath.Glob can return: up to MaxRegions files of distinct paths
FileLists ==
    UNION {{fl \in [1..n -> FilePool] : \A a, b \in 1..n : fl[a] = fl[b] => a = b} :
           n \in 0..MaxRegions}

(***************************************************************************)
(* Decoding.                                                                *)
(***************************************************************************)
\* NewRegion: the path, and the coordinates Sscanf reads from its base name
NewRegion(file) == [X |-> file.X, Z |-> file.Z, Path |-> file.Path]

\* the file os.Open(region.Path) opens
FileAt(path) == CHOOSE f \in FilePool : f.Path = path

\* Location.Read: Length is the low byte of the word, Offset the rest
LocationRead(word) == [Offset |-> word \div 256, Length |-> word % 256]

\* Header.Read, the location table
HeaderRead(file) == [k \in 1..Len(file.Header) |-> LocationRead(file.Header[k])]

\* the bytes io.NewSectionReader(regionFile, Offset << 12, Length << 12) gives
\* Level.Read: the record stored at that sector, or nothing to inflate
SectionReader(file, location) ==
    IF location.Offset \in DOMAIN file.Records
    THEN file.Records[location.Offset] ELSE NoZlib

\* Level.Read on a zero Level.  The error of zlib.NewReader is handled (line
\* 160) before the recover is deferred (line 168): whether errhandler.Handle
\* panics, exits, or returns and leaves a nil reader to ReadFrom, nothing
\* recovers and the process dies.  A tag tree that does not parse to its end
\* panics inside nbt.Read, which is recovered: the fields stored so far stay.
LevelRead(l, record) ==
    IF ~record.zlibOK
    THEN [panic |-> TRUE, level |-> l]
    ELSE [panic |-> FALSE, level |-> record.level]

\* the test of line 356
HasRecord(location) == location.Length # 0

\* the test of line 361
PopulatedNonZero(chunk) == chunk.TerrainPopulated # 0
Populated(chunk) == chunk.TerrainPopulated = 1

(***************************************************************************)
(* Drawing.                                                                 *)
(***************************************************************************)
\* the n-th (from 0) voxel of the loops of Level.Draw over one section, with
\* y running downwards
LoopVoxelYDown(n) ==
    <<(SectionDim - 1) - ((n \div SectionDim) % SectionDim),
      (SectionDim - 1) - (n \div (SectionDim * SectionDim)),
      n % SectionDim>>

\* the n-th (from 0) voxel <<x, y, z>> of the loops of Level.Draw over one
\* section: y from 0 up outermost, x from 15 down, z from 0 up innermost
LoopVoxel(n) ==
    <<(SectionDim - 1) - ((n \div SectionDim) % SectionDim),
      n \div (SectionDim * SectionDim),
      n % SectionDim>>

\* the voxels the loops of Level.Draw visit in one section, in order
Visited == [n \in 1..(SectionDim * SectionDim * SectionDim) |-> LoopVoxel(n - 1)]

\* the DrawBlock calls for the voxels hits of section number k of l: for each
\* the local voxel v, the voxel w and the pixel p ProjectIsometric gives for it
DrawBlocks(l, k, hits) ==
    [i \in 1..Len(hits) |->
        [sec |-> k,
         v |-> hits[i],
         w |-> WorldVoxel(l, l.Sections[k], hits[i][1], hits[i][2], hits[i][3]),
         p |-> ProjectIsometric(
                 WorldVoxel(l, l.Sections[k], hits[i][1], hits[i][2], hits[i][3])[1],
                 WorldVoxel(l, l.Sections[k], hits[i][1], hits[i][2], hits[i][3])[2],
                 WorldVoxel(l, l.Sections[k], hits[i][1], hits[i][2], hits[i][3])[3])]]

\* the DrawBlock calls of Level.Draw for section number k of l, in order:
\* one for each voxel visited whose block code has a colour
DrawSection(l, k) ==
    DrawBlocks(l, k,
        SelectSeq(Visited,
                  LAMBDA v : Block(l.Sections[k], v[1], v[2], v[3]) \in blockColors))

\* Level.Draw: the DrawBlock calls for sections k.. of l, in order
RECURSIVE DrawFrom(_, _)
DrawFrom(l, k) ==
    IF k > Len(l.Sections) THEN <<>>
    ELSE DrawSection(l, k) \o DrawFrom(l, k + 1)

Draw(l) == DrawFrom(l, 1)

(***************************************************************************)
(* The pipeline of main: the producer goroutine and the range loop over the *)
(* unbuffered channel work.                                                 *)
(***************************************************************************)
NoJob == [Filename |-> "", Index |-> 0, ChunkCount |-> 0, Chunks |-> <<>>]

\* Job{filepath.Base(region.Path), i + 1, len(chunks), chunks}
MkJob(region, index, list) ==
    [Filename |-> region.Path, Index |-> index, ChunkCount |-> Len(list), Chunks |-> list]

\* a send on work completes although nobody is receiving
HandoffUnsynchronised == ppc = "send"
\* work is unbuffered (make(chan Job)): a send completes only with a receive
HandoffReady == ppc = "send" /\ cpc = "recv"

\* the range over job.Chunks stops one chunk early
JobDoneEarly(job, i) == i >= Len(job.Chunks)
\* the range over job.Chunks is over
JobDone(job, i) == i > Len(job.Chunks)

\* close(work) left out
CloseWorkForgotten(c) == c
\* close(work)
CloseWork(c) == TRUE

Running == mpc = "run" /\ aborted = "none"

PipeInit ==
    /\ mpc = "init"
    /\ files \in FileLists
    /\ regions = <<>>
    /\ ppc = "loop" /\ pi = 1 /\ pl = 1
    /\ locations = <<>> /\ chunks = <<>>
    /\ open = {} /\ closed = FALSE
    /\ cpc = "recv" /\ cjob = NoJob /\ ci = 1
    /\ paintLog = <<>>
    /\ drawLog = <<>>
    /\ aborted = "none"
    /\ reads = <<>> /\ appends = <<>> /\ sent = <<>> /\ received = <<>>
    /\ started = 0 /\ finished = 0

\* main up to the go statement: the regions are collected and sorted
MainStart ==
    /\ mpc = "init" /\ aborted = "none"
    /\ regions' \in SortResults([k \in 1..Len(files) |-> NewRegion(files[k])])
    /\ mpc' = "run"
    /\ UNCHANGED <<files, ppc, pi, pl, locations, chunks, open, closed, cpc, cjob, ci,
                   paintLog, drawLog, aborted, reads, appends, sent, received, started, finished,
                   srt, geo>>

\* producer: os.Open of the next region and header.Read
ProdOpen ==
    /\ Running /\ ppc = "loop" /\ pi <= Len(regions)
    /\ LET file == FileAt(regions[pi].Path)
       IN  IF file.readable
           THEN /\ open' = open \cup {pi}
                /\ locations' = HeaderRead(file)
                /\ pl' = 1
                /\ chunks' = <<>>
                /\ ppc' = "scan"
                /\ started' = started + 1
                /\ UNCHANGED aborted
           ELSE /\ aborted' = "open"
                /\ UNCHANGED <<open, locations, pl, chunks, ppc, started>>
    /\ UNCHANGED <<mpc, files, regions, pi, closed, cpc, cjob, ci, paintLog, drawLog, reads,
                   appends, sent, received, finished, srt, geo>>

\* producer: one iteration of the loop over header.Locations
ProdScan ==
    /\ Running /\ ppc = "scan" /\ pl <= Len(locations)
    /\ LET file == FileAt(regions[pi].Path)
           location == locations[pl]
           record == SectionReader(file, location)
           result == LevelRead(ZeroLevel, record)
       IN  IF HasRecord(location)
           THEN /\ reads' = Append(reads, <<pi, pl, location.Length>>)
                /\ IF result.panic
                   THEN /\ aborted' = "zlib"
                        /\ UNCHANGED <<pl, chunks, appends>>
                   ELSE /\ pl' = pl + 1
                        /\ UNCHANGED aborted
                        /\ IF Populated(result.level)
                           THEN /\ chunks' = Append(chunks, result.level)
                                /\ appends' = Append(appends,
                                      [region |-> pi, location |-> pl,
                                       populated |-> result.level.TerrainPopulated,
                                       whole |-> record.treeOK])
                           ELSE UNCHANGED <<chunks, appends>>
           ELSE /\ pl' = pl + 1
                /\ UNCHANGED <<reads, aborted, chunks, appends>>
    /\ UNCHANGED <<mpc, files, regions, ppc, pi, locations, open, closed, cpc, cjob, ci,
                   paintLog, drawLog, sent, received, started, finished, srt, geo>>

\* producer: regionFile.Close() and sort.Sort(chunks)
ProdFinish ==
    /\ Running /\ ppc = "scan" /\ pl > Len(locations)
    /\ open' = open \ {pi}
    /\ chunks' \in SortResults(chunks)
    /\ ppc' = "send"
    /\ UNCHANGED <<mpc, files, regions, pi, pl, locations, closed, cpc, cjob, ci,
                   paintLog, drawLog, aborted, reads, appends, sent, received, started, finished,
                   srt, geo>>

\* work <- Job{...} meets job := <-work
Handoff ==
    /\ Running /\ HandoffReady
    /\ cjob' = MkJob(regions[pi], pi, chunks)
    /\ sent' = Append(sent, MkJob(regions[pi], pi, chunks))
    /\ received' = Append(received, pi)
    /\ ci' = 1
    /\ cpc' = "draw"
    /\ pi' = pi + 1
    /\ ppc' = "loop"
    /\ UNCHANGED <<mpc, files, regions, pl, locations, chunks, open, closed, paintLog,
                   drawLog, aborted, reads, appends, started, finished, srt, geo>>

\* producer: the loop over regions is over, close(work)
ProdClose ==
    /\ Running /\ ppc = "loop" /\ pi > Len(regions)
    /\ closed' = CloseWork(closed)
    /\ ppc' = "done"
    /\ UNCHANGED <<mpc, files, regions, pi, pl, locations, chunks, open, cpc, cjob, ci,
                   paintLog, drawLog, aborted, reads, appends, sent, received, started, finished,
                   srt, geo>>

\* consumer: chunk.Draw(img) for the next chunk of the job
ConsDraw ==
    /\ Running /\ cpc = "draw" /\ ~JobDone(cjob, ci)
    /\ paintLog' = Append(paintLog,
                          [job |-> cjob.Index, chunk |-> ci, by |-> "consumer",
                           calls |-> Draw(cjob.Chunks[ci])])
    /\ drawLog' = Append(drawLog, <<cjob.Index, ci>>)
    /\ ci' = ci + 1
    /\ UNCHANGED <<mpc, files, regions, ppc, pi, pl, locations, chunks, open, closed,
                   cpc, cjob, aborted, reads, appends, sent, received, started,
                   finished, srt, geo>>

\* consumer: the job's chunks are drawn, back to the receive
ConsNext ==
    /\ Running /\ cpc = "draw" /\ JobDone(cjob, ci)
    /\ cpc' = "recv"
    /\ finished' = finished + 1
    /\ UNCHANGED <<mpc, files, regions, ppc, pi, pl, locations, chunks, open, closed,
                   cjob, ci, paintLog, drawLog, aborted, reads, appends, sent, received, started,
                   srt, geo>>

\* consumer: the receive finds work closed, the range loop ends
ConsEnd ==
    /\ Running /\ cpc = "recv" /\ closed
    /\ cpc' = "done"
    /\ UNCHANGED <<mpc, files, regions, ppc, pi, pl, locations, chunks, open, closed,
                   cjob, ci, paintLog, drawLog, aborted, reads, appends, sent, received, started,
                   finished, srt, geo>>

IdleSort == [pc |-> "idle", in |-> <<>>, out |-> <<>>]
IdleGeo == [pc |-> "idle"]

Init == PipeInit /\ srt = IdleSort /\ geo = IdleGeo

Next ==
    \/ MainStart
    \/ ProdOpen
    \/ ProdScan
    \/ ProdFinish
    \/ ProdClose
    \/ Handoff
    \/ ConsDraw
    \/ ConsNext
    \/ ConsEnd

Spec == Init /\ [][Next]_vars

\* the Go scheduler runs a goroutine that can run: while some step of main or
\* of the producer is possible, one is taken
FairSpec == Init /\ [][Next]_vars /\ WF_vars(Next)

(***************************************************************************)
(* The ordering on its own: sort.Sort applied to a list of positions.       *)
(***************************************************************************)
Pos(x, z) == [X |-> x, Z |-> z]

PosPool == {Pos(0, 0), Pos(1, 0), Pos(0, 1), Pos(-1, 1)}

PosLists == UNION {[1..n -> PosPool] : n \in 0..MaxLen}

\* the pipeline is not running
PipeOff ==
    /\ mpc = "off"
    /\ files = <<>> /\ regions = <<>>
    /\ ppc = "off" /\ pi = 1 /\ pl = 1
    /\ locations = <<>> /\ chunks = <<>>
    /\ open = {} /\ closed = FALSE
    /\ cpc = "off" /\ cjob = NoJob /\ ci = 1
    /\ paintLog = <<>> /\ drawLog = <<>>
    /\ aborted = "none"
    /\ reads = <<>> /\ appends = <<>> /\ sent = <<>> /\ received = <<>>
    /\ started = 0 /\ finished = 0

SortInit ==
    /\ PipeOff
    /\ geo = IdleGeo
    /\ srt \in {[pc |-> "in", in |-> list, out |-> <<>>] : list \in PosLists}

\* sort.Sort(list)
SortStep ==
    /\ srt.pc = "in"
    /\ \E out \in SortResults(srt.in) : srt' = [pc |-> "sorted", in |-> srt.in, out |-> out]
    /\ UNCHANGED <<pipeVars, geo>>

SortNext == SortStep

SortSpec == SortInit /\ [][SortNext]_vars

(***************************************************************************)
(* The projection on its own.                                               *)
(***************************************************************************)
\* voxel coordinates of the projection specification range over -VoxMax..VoxMax
VoxMax == 3

ProjInit ==
    /\ PipeOff
    /\ srt = IdleSort
    /\ geo \in {[pc |-> "in", x |-> x, y |-> y, z |-> z, proj |-> <<0, 0>>] :
                  x \in -VoxMax..VoxMax, y \in -VoxMax..VoxMax, z \in -VoxMax..VoxMax}

\* xISO, yISO := ProjectIsometric(x, y, z)
ProjStep ==
    /\ geo.pc = "in"
    /\ geo' = [geo EXCEPT !.pc = "projected", !.proj = ProjectIsometric(geo.x, geo.y, geo.z)]
    /\ UNCHANGED <<pipeVars, srt>>

ProjNext == ProjStep

ProjSpec == ProjInit /\ [][ProjNext]_vars

(***************************************************************************)
(* A chunk's bounds against the tiles Level.Draw paints for it.             *)
(***************************************************************************)
\* local voxel coordinates tried on each axis (both ends and two between)
LocalVals == {0, 1, 8, SectionDim - 1}

EmptySection(Y) == MkSection(Y, {})

GeoSectionLists ==
    {<<EmptySection(0)>>, <<EmptySection(0), EmptySection(1)>>,
     <<EmptySection(3), EmptySection(0)>>, <<EmptySection(15)>>}

\* a chunk far out on the Z - X diagonal: 16 * (Z - X) + 16 is 2^31, one more
\* than an int32 holds
FarChunk == MkLevel(-67108864, 67108863, 1, <<EmptySection(1)>>)

GeoChunks ==
    {MkLevel(X, Z, 1, sections) :
        X \in -CoordMax..CoordMax, Z \in -CoordMax..CoordMax, sections \in GeoSectionLists}
    \cup {FarChunk}

GeoInit ==
    /\ PipeOff
    /\ srt = IdleSort
    /\ geo \in {[pc |-> "in", chunk |-> c, sec |-> k, x |-> x, y |-> y, z |-> z,
                 proj |-> <<0, 0>>, tile |-> Rect(0, 0, 0, 0), rect |-> Rect(0, 0, 0, 0)] :
                  c \in GeoChunks, k \in 1..2, x \in LocalVals, y \in LocalVals,
                  z \in LocalVals}
    /\ geo.sec <= Len(geo.chunk.Sections)

\* one pass of the innermost loop of Level.Draw: project the voxel, and the
\* rectangle DrawBlock paints in
GeoDraw ==
    /\ geo.pc = "in"
    /\ LET w == WorldVoxel(geo.chunk, geo.chunk.Sections[geo.sec], geo.x, geo.y, geo.z)
           p == ProjectIsometric(w[1], w[2], w[3])
       IN  geo' = [geo EXCEPT !.pc = "drawn", !.proj = p, !.tile = Tile(p[1], p[2])]
    /\ UNCHANGED <<pipeVars, srt>>

\* chunk.Bounds()
GeoBounds ==
    /\ geo.pc = "drawn"
    /\ geo' = [geo EXCEPT !.pc = "done", !.rect = Bounds(geo.chunk)]
    /\ UNCHANGED <<pipeVars, srt>>

GeoNext == GeoDraw \/ GeoBounds

GeoSpec == GeoInit /\ [][GeoNext]_vars

(***************************************************************************)
(* Properties.                                                              *)
(***************************************************************************)
\* the draws the consumer owes for the first m jobs sent: each job's chunks
\* in list order, job after job
RECURSIVE ExpectedDraws(_)
ExpectedDraws(m) ==
    IF m = 0 THEN <<>>
    ELSE ExpectedDraws(m - 1) \o [i \in 1..Len(sent[m].Chunks) |-> <<m, i>>]

IsPrefix(a, b) == Len(a) <= Len(b) /\ SubSeq(b, 1, Len(a)) = a

C1_Inv ==
    /\ Len(sent) = Len(received)
    /\ \A k \in DOMAIN received :
          /\ received[k] = k
          /\ sent[k].Index = k
          /\ sent[k].Filename = regions[k].Path
    /\ cjob = IF received = <<>> THEN NoJob ELSE sent[Len(sent)]
    /\ IF received = <<>>
       THEN drawLog = <<>>
       ELSE /\ IsPrefix(ExpectedDraws(Len(received) - 1), drawLog)
            /\ IsPrefix(drawLog, ExpectedDraws(Len(received)))
    /\ \A k \in DOMAIN paintLog : paintLog[k].by = "consumer"

C1_Step ==
    /\ paintLog' # paintLog =>
          /\ cpc = "draw" /\ drawLog' = Append(drawLog, <<cjob.Index, ci>>)
          /\ UNCHANGED <<ppc, pi, pl, locations, chunks, open, closed>>
    /\ received' # received =>
          /\ cpc = "recv"
          /\ IsPrefix(ExpectedDraws(Len(received)), drawLog)

\* C1: the consumer receives the batches in the sorted container order, Index
\* 1, 2, ... with none skipped or repeated; every chunk of a batch is drawn,
\* in list order, before the next batch is received, so the draws of two
\* batches never interleave; and only consumer steps write to the image.
C1_OrderedExclusiveRendering == []C1_Inv /\ [][C1_Step]_vars

\* C1 witness: the second batch has been received after a first batch of
\* several chunks was drawn, and a chunk of the second has been drawn
C1_Witness ==
    /\ Len(received) = 2
    /\ Len(sent[1].Chunks) >= 2
    /\ Len(drawLog) > Len(sent[1].Chunks)
    /\ regions # [k \in 1..Len(files) |-> NewRegion(files[k])]

\* C2: a failure of Level.Read on one record never stops the producer and the
\* record never reaches the consumer as a chunk of a batch.
C2_ReadFailureIsLocal ==
    /\ aborted # "zlib"
    /\ \A k \in DOMAIN appends : appends[k].whole

\* the location table of the region of index i
TableOf(i) == HeaderRead(FileAt(regions[i].Path))

\* C3: every chunk of every batch sent was decoded from a location entry of
\* non-zero Length and has TerrainPopulated = 1; no entry of Length 0 is ever
\* handed to Level.Read; no chunk with another TerrainPopulated value is ever
\* appended; ChunkCount is the length of the chunk list.
C3_OnlyPopulatedRecords ==
    /\ \A k \in DOMAIN reads :
          /\ reads[k][3] # 0
          /\ TableOf(reads[k][1])[reads[k][2]].Length = reads[k][3]
    /\ \A i \in 1..Len(regions) : \A l \in 1..Len(TableOf(i)) :
          (TableOf(i)[l].Length = 0 /\ (i < pi \/ (i = pi /\ ppc = "scan" /\ l < pl)))
             => ~\E k \in DOMAIN reads : reads[k][1] = i /\ reads[k][2] = l
    /\ \A k \in DOMAIN appends :
          /\ appends[k].populated = 1
          /\ \E r \in DOMAIN reads :
                reads[r][1] = appends[k].region /\ reads[r][2] = appends[k].location
    /\ \A k \in DOMAIN chunks : chunks[k].TerrainPopulated = 1
    /\ \A k \in DOMAIN sent :
          /\ sent[k].ChunkCount = Len(sent[k].Chunks)
          /\ Len(sent[k].Chunks) =
                Cardinality({a \in DOMAIN appends : appends[a].region = sent[k].Index})
          /\ \A c \in DOMAIN sent[k].Chunks :
                /\ sent[k].Chunks[c].TerrainPopulated = 1
                /\ \E a \in DOMAIN appends :
                      /\ appends[a].region = sent[k].Index
                      /\ TableOf(appends[a].region)[appends[a].location].Length # 0
                      /\ SectionReader(FileAt(regions[appends[a].region].Path),
                                       TableOf(appends[a].region)[appends[a].location]).level
                           = sent[k].Chunks[c]

\* C3 witness: a batch with a chunk has been sent for a file that also holds
\* an entry of Length 0 and a record whose TerrainPopulated is not 1
C3_Witness ==
    \E k \in DOMAIN sent :
        /\ sent[k].ChunkCount >= 1
        /\ \E l \in DOMAIN TableOf(k) : TableOf(k)[l].Length = 0
        /\ \E r \in DOMAIN reads : reads[r][1] = k /\
              ~\E a \in DOMAIN appends :
                   appends[a].region = k /\ appends[a].location = reads[r][2]

\* a list is in the order of ascending Z and, within equal Z, descending X
Ordered(list) ==
    \A i, j \in DOMAIN list :
        i < j => \/ list[i].Z < list[j].Z
                 \/ list[i].Z = list[j].Z /\ list[i].X >= list[j].X

\* Less on the list is the strict order: Z ascending, then X descending
LessIsTheOrder(list) ==
    \A i, j \in DOMAIN list :
        /\ Less(list, i, j) <=>
              \/ list[i].Z < list[j].Z
              \/ list[i].Z = list[j].Z /\ list[i].X > list[j].X
        /\ ~(Less(list, i, j) /\ Less(list, j, i))
        /\ (~Less(list, i, j) /\ ~Less(list, j, i)) => GetPos(list[i]) = GetPos(list[j])

\* C4: Less(a, b) holds exactly when a.Z < b.Z, or a.Z = b.Z and a.X > b.X;
\* never both ways round, and neither way only for equal positions.  So the
\* sorted container list and the chunk list of every batch sent are in the
\* order of ascending Z and, within equal Z, descending X.
C4_SpatialOrder ==
    /\ LessIsTheOrder([k \in 1..Len(files) |-> NewRegion(files[k])])
    /\ LessIsTheOrder(regions)
    /\ LessIsTheOrder(chunks)
    /\ mpc = "run" => Len(regions) = Len(files) /\ Ordered(regions)
    /\ ppc = "send" => Ordered(chunks)
    /\ \A k \in DOMAIN sent : LessIsTheOrder(sent[k].Chunks) /\ Ordered(sent[k].Chunks)

\* C4 witness: two containers were sorted into another order than the files
\* came in, and a batch of three chunks over two rows of Z has been sent
C4_Witness ==
    /\ mpc = "run" /\ Len(regions) = 2
    /\ regions # [k \in 1..Len(files) |-> NewRegion(files[k])]
    /\ \E k \in DOMAIN sent :
          /\ Len(sent[k].Chunks) = 3
          /\ sent[k].Chunks[1].Z = sent[k].Chunks[2].Z
          /\ sent[k].Chunks[1].X > sent[k].Chunks[2].X
          /\ sent[k].Chunks[2].Z < sent[k].Chunks[3].Z

\* the list holds each of (0,0), (1,0), (0,1), (-1,1) once
IsTheFour(list) ==
    /\ Len(list) = 4
    /\ {list[k] : k \in 1..Len(list)} = {Pos(0, 0), Pos(1, 0), Pos(0, 1), Pos(-1, 1)}

\* C5 as stated: sorting (0,0), (1,0), (0,1), (-1,1) yields
\* (0,0), (1,0), (-1,1), (0,1).
C5_AsStated ==
    (srt.pc = "sorted" /\ IsTheFour(srt.in))
       => srt.out = <<Pos(0, 0), Pos(1, 0), Pos(-1, 1), Pos(0, 1)>>

\* C5 amended: sorting (0,0), (1,0), (0,1), (-1,1), in whatever order they
\* come, yields (1,0), (0,0), (0,1), (-1,1): Z ascending, X descending.
C5_SortsTheFour ==
    (srt.pc = "sorted" /\ IsTheFour(srt.in))
       => srt.out = <<Pos(1, 0), Pos(0, 0), Pos(0, 1), Pos(-1, 1)>>

\* C5 witness: the four positions, in the order the claim lists them, sorted
C5_Witness ==
    /\ srt.pc = "sorted"
    /\ srt.in = <<Pos(0, 0), Pos(1, 0), Pos(0, 1), Pos(-1, 1)>>

\* C6 as stated: pixelX = 2 * (x + z) and pixelY = -(x + z) - 2 * y.
C6_AsStated ==
    geo.pc = "projected"
       => geo.proj = <<2 * (geo.x + geo.z), (0 - (geo.x + geo.z)) - 2 * geo.y>>

\* C6 amended: for every voxel coordinate (x, y, z), ProjectIsometric returns
\* pixelX = 2 * (x + z) and pixelY = z - x - 2 * y.
C6_Projection ==
    geo.pc = "projected"
       => geo.proj = <<2 * (geo.x + geo.z), (geo.z - geo.x) - 2 * geo.y>>

\* C6 witness: project(0, 0, 1) = (2, 1)
C6_Witness ==
    geo.pc = "projected" /\ geo.x = 0 /\ geo.y = 0 /\ geo.z = 1 /\ geo.proj = <<2, 1>>

\* C7: the handoff is single-slot and blocking.  The decode of container k+2
\* does not begin before batch k+1 has been received, and batch k+1 is not
\* received before the rendering of batch k has ended: at most two batches
\* are in flight (decode begun, rendering not ended), at most one of them
\* being rendered, and the producer is never more than one container ahead.
C7_OneAhead ==
    /\ started - finished <= 2
    /\ started <= Len(received) + 1
    /\ Len(received) <= finished + 1
    /\ cpc = "draw" <=> Len(received) = finished + 1
    /\ ppc \in {"scan", "send"} => pi = Len(received) + 1 /\ started = pi
    /\ cpc = "draw" => cjob.Index = Len(received)

\* C7 witness: container 2 is being decoded while batch 1 is being rendered
C7_Witness ==
    /\ ppc = "scan" /\ pi = 2 /\ pl > 1
    /\ cpc = "draw" /\ cjob.Index = 1 /\ ci > 1 /\ ~JobDone(cjob, ci)
    /\ started - finished = 2

C8_Safety ==
    /\ ppc = "send" => pi \notin open
    /\ \A k \in 1..Len(sent) : k \notin open
    /\ \A k \in DOMAIN sent : sent[k].Index = k
    /\ closed => ppc = "done"
    /\ ppc = "done" => /\ closed
                       /\ Len(sent) = Len(regions)
                       /\ open = {}
    /\ cpc = "done" => /\ ppc = "done"
                       /\ Len(received) = Len(regions)
                       /\ \A k \in DOMAIN received : received[k] = k
                       /\ finished = Len(regions)

C8_Completed == ppc = "done" /\ cpc = "done"

\* C8: for any list of containers, the empty one too, and unless the process
\* dies of a fatal error, the pipeline runs to completion: the producer sends
\* one batch per container (also for a container without a populated chunk),
\* each after closing the container's file, then closes the channel; the
\* consumer receives each batch once and its receive loop ends.
C8_RunsToCompletion == []C8_Safety /\ <>(aborted # "none" \/ C8_Completed)

\* C8 witness: a run over two containers, one of them without a populated
\* chunk, has completed
C8_Witness ==
    /\ C8_Completed
    /\ Len(regions) = 2 /\ Len(received) = 2
    /\ \E k \in DOMAIN sent : sent[k].ChunkCount = 0
    /\ \E k \in DOMAIN sent : sent[k].ChunkCount > 1

\* a region is 512 blocks wide (Region.Bounds shifts by 9), a chunk 16
ChunksPerRegion == (2 ^ 9) \div SectionDim

\* every chunk sent lies in the container its coordinates name, and lists its
\* sections in ascending Y
C9_Assumed ==
    \A k \in DOMAIN sent : \A c \in DOMAIN sent[k].Chunks :
        LET chunk == sent[k].Chunks[c]
        IN  /\ chunk.X \div ChunksPerRegion = regions[k].X
            /\ chunk.Z \div ChunksPerRegion = regions[k].Z
            /\ \A a, b \in DOMAIN chunk.Sections :
                  a < b => chunk.Sections[a].Y < chunk.Sections[b].Y

\* no two chunks sent have the same coordinates
C9_DistinctChunks ==
    \A k, m \in DOMAIN sent : \A c \in DOMAIN sent[k].Chunks : \A d \in DOMAIN sent[m].Chunks :
        GetPos(sent[k].Chunks[c]) = GetPos(sent[m].Chunks[d]) => (k = m /\ c = d)

\* the DrawBlock calls of the run so far, in order, each with its job and chunk
RECURSIVE PaintedFrom(_)
PaintedFrom(d) ==
    IF d > Len(paintLog) THEN <<>>
    ELSE [k \in 1..Len(paintLog[d].calls) |->
            [job |-> paintLog[d].job, chunk |-> paintLog[d].chunk,
             sec |-> paintLog[d].calls[k].sec, v |-> paintLog[d].calls[k].v,
             w |-> paintLog[d].calls[k].w, p |-> paintLog[d].calls[k].p]]
         \o PaintedFrom(d + 1)

Painted == PaintedFrom(1)

\* within one section: y ascending, then x descending, then z ascending
SectionOrder(log) ==
    \A i, j \in DOMAIN log :
        (i < j /\ log[i].job = log[j].job /\ log[i].chunk = log[j].chunk
               /\ log[i].sec = log[j].sec)
        => LET a == log[i].v
               b == log[j].v
           IN  \/ a[2] < b[2]
               \/ a[2] = b[2] /\ a[1] > b[1]
               \/ a[2] = b[2] /\ a[1] = b[1] /\ a[3] < b[3]

\* of two painted voxels (x, y, z) and (x - k, y + k, z + k), k >= 1, the
\* one with the greater y is painted later
UpperLater(log) ==
    \A i, j \in DOMAIN log :
        \/ (\E k \in 1..(log[j].w[2] - log[i].w[2]) :
             /\ log[j].w[1] = log[i].w[1] - k
             /\ log[j].w[2] = log[i].w[2] + k
             /\ log[j].w[3] = log[i].w[3] + k)
        \/ (log[i].p = log[j].p /\ log[j].w[2] > log[i].w[2])
        => (log[i].p = log[j].p /\ i < j)

C9_SectionOrder == SectionOrder(Painted)
C9_UpperLater == UpperLater(Painted)

PairsOfAllKinds(log) ==
    /\ \E i, j \in DOMAIN log :
          /\ i < j /\ log[i].p = log[j].p
          /\ log[i].job = log[j].job /\ log[i].chunk = log[j].chunk
          /\ log[i].sec = log[j].sec
    /\ \E i, j \in DOMAIN log :
          /\ i < j /\ log[i].p = log[j].p
          /\ log[i].job = log[j].job /\ log[i].chunk = log[j].chunk
          /\ log[i].sec # log[j].sec
    /\ \E i, j \in DOMAIN log :
          /\ i < j /\ log[i].p = log[j].p
          /\ log[i].job = log[j].job /\ log[i].chunk # log[j].chunk
    /\ \E i, j \in DOMAIN log :
          /\ i < j /\ log[i].p = log[j].p
          /\ log[i].job # log[j].job

C10_TileInBounds == geo.pc = "done" => RectIn(geo.tile, geo.rect)

\* the arithmetic of Level.Bounds stays within int32 for the chunk
BoundsFitInt32(l) ==
    /\ l.X > -(2 ^ 25) /\ l.X < 2 ^ 25
    /\ l.Z > -(2 ^ 25) /\ l.Z < 2 ^ 25

\* where no int32 wraps, the tile does lie inside the bounds
TileInBoundsNearOrigin ==
    (geo.pc = "done" /\ BoundsFitInt32(geo.chunk)) => RectIn(geo.tile, geo.rect)

====
